---- MODULE Spec2Model ----
(***************************************************************************)
(* Model of go-peerflix's torrent session client (client.go): NewClient,   *)
(* its background readahead goroutine, Close, Render, ReadyForPlayback,    *)
(* GetFile and percentage, together with the download engine they drive.   *)
(***************************************************************************)
EXTENDS Integers, Sequences, FiniteSets, TLC

\* ---------------------------------------------------------------- bounds
SmallPieces == 1
MidPieces == 20
LargePieces == 100
PieceLength == 2
MaxCompleted == 3

\* Piece counts the arriving metadata may announce.
PieceCounts == {SmallPieces, MidPieces, LargePieces}

\* ----------------------------------------------------------------- state
VARIABLES
    torrentPath,      \* kind of the torrentPath argument of NewClient
    ncPc,             \* position of NewClient
    evaluated,        \* construction steps NewClient has evaluated, in order
    err,              \* ClientError.Type returned by NewClient (NoError = nil)
    clientAttached,   \* client.Client has been assigned
    torrentAttached,  \* client.Torrent has been assigned
    torrentAdded,     \* the engine holds the torrent
    gotInfo,          \* t.GotInfo() has fired
    numPieces,        \* len(t.Pieces)
    files,            \* lengths of t.Files(), in order
    bytesCompleted,   \* t.BytesCompleted()
    priority,         \* t.Pieces[i].Priority
    downloadAllCalls, \* number of t.DownloadAll() calls
    bgPc,             \* position of the goroutine started by NewClient
    bgI,              \* loop variable i of the goroutine
    Progress,         \* c.Progress
    screen,           \* what the last Render printed
    readyCalled,      \* ReadyForPlayback has been called
    readyResult,      \* value returned by the last ReadyForPlayback call
    target,           \* file selected by the last GetFile
    closePc,          \* number of calls Close has made
    torrentDropped,   \* c.Torrent.Drop() has been called
    engineClosed      \* c.Client.Close() has been called

vars == <<torrentPath, ncPc, evaluated, err, clientAttached, torrentAttached,
          torrentAdded, gotInfo, numPieces, files, bytesCompleted, priority,
          downloadAllCalls, bgPc, bgI, Progress, screen, readyCalled,
          readyResult, target, closePc, torrentDropped, engineClosed>>

ncVars == <<ncPc, evaluated, err, clientAttached, torrentAttached, torrentAdded>>
engineVars == <<gotInfo, numPieces, files, bytesCompleted>>
bgVars == <<downloadAllCalls, bgPc, bgI>>
uiVars == <<Progress, screen, readyCalled, readyResult>>
closeVars == <<closePc, torrentDropped, engineClosed>>

\* ------------------------------------------------------------- NewClient
NoError == "nil"

PathKinds == {"magnet", "http", "file"}

\* ClientError.Type of each construction step.
ErrorType(step) ==
    CASE step = "torrent.NewClient"   -> "creating torrent client"
      [] step = "AddMagnet"           -> "adding torrent"
      [] step = "downloadFile"        -> "downloading torrent file"
      [] step = "os.Stat"             -> "file not found"
      [] step = "AddTorrentFromFile"  -> "adding torrent to the client"

\* The step NewClient evaluates after `step` has succeeded.
Successor(step) ==
    CASE step = "torrent.NewClient" ->
            IF torrentPath = "magnet" THEN "AddMagnet"
            ELSE IF torrentPath = "http" THEN "downloadFile"
            ELSE "os.Stat"
      [] step = "AddMagnet"          -> "attach"
      [] step = "downloadFile"       -> "os.Stat"
      [] step = "os.Stat"            -> "AddTorrentFromFile"
      [] step = "AddTorrentFromFile" -> "attach"

ReturnIgnoringStat(step, ok) ==
    IF ok \/ step = "os.Stat"
    THEN [pc |-> Successor(step), err |-> NoError]
    ELSE [pc |-> "failed", err |-> ErrorType(step)]

\* `if err != nil { return client, ClientError{...} }` after each step.
Return(step, ok) ==
    IF ok
    THEN [pc |-> Successor(step), err |-> NoError]
    ELSE [pc |-> "failed", err |-> ErrorType(step)]

Evaluate(step, ok) ==
    /\ ncPc = step
    /\ evaluated' = Append(evaluated, [step |-> step, ok |-> ok])
    /\ ncPc' = Return(step, ok).pc
    /\ err' = Return(step, ok).err

NewTorrentClient ==
    \E ok \in BOOLEAN :
        /\ Evaluate("torrent.NewClient", ok)
        /\ clientAttached' = ok
        /\ UNCHANGED <<torrentPath, torrentAttached, torrentAdded, engineVars,
                       priority, bgVars, uiVars, target, closeVars>>

AddMagnet ==
    \E ok \in BOOLEAN :
        /\ Evaluate("AddMagnet", ok)
        /\ torrentAdded' = ok
        /\ UNCHANGED <<torrentPath, clientAttached, torrentAttached, engineVars,
                       priority, bgVars, uiVars, target, closeVars>>

downloadFile ==
    \E ok \in BOOLEAN :
        /\ Evaluate("downloadFile", ok)
        /\ UNCHANGED <<torrentPath, clientAttached, torrentAttached,
                       torrentAdded, engineVars, priority, bgVars, uiVars,
                       target, closeVars>>

StatFile ==
    \E ok \in BOOLEAN :
        /\ Evaluate("os.Stat", ok)
        /\ UNCHANGED <<torrentPath, clientAttached, torrentAttached,
                       torrentAdded, engineVars, priority, bgVars, uiVars,
                       target, closeVars>>

AddTorrentFromFile ==
    \E ok \in BOOLEAN :
        /\ Evaluate("AddTorrentFromFile", ok)
        /\ torrentAdded' = ok
        /\ UNCHANGED <<torrentPath, clientAttached, torrentAttached, engineVars,
                       priority, bgVars, uiVars, target, closeVars>>

\* client.Torrent = t; go func() {...}(); return
StartBackground ==
    /\ ncPc = "attach"
    /\ torrentAttached' = TRUE
    /\ bgPc' = "wait"
    /\ ncPc' = "done"
    /\ UNCHANGED <<torrentPath, evaluated, err, clientAttached, torrentAdded,
                   engineVars, priority, downloadAllCalls, bgI, uiVars, target,
                   closeVars>>

NewClient ==
    \/ NewTorrentClient
    \/ AddMagnet
    \/ downloadFile
    \/ StatFile
    \/ AddTorrentFromFile
    \/ StartBackground

\* --------------------------------------------------------- download engine
Min(a, b) == IF a < b THEN a ELSE b

RECURSIVE SumSeq(_)
SumSeq(s) == IF s = <<>> THEN 0 ELSE Head(s) + SumSeq(Tail(s))

\* t.Length(): total bytes of the torrent, 0 while the metadata is unknown.
Length == SumSeq(files)

\* File lists a torrent of `total` bytes may carry.
FileLayouts(total) ==
    {<<total>>} \cup (IF total > 2 THEN {<<1, total - 2, 1>>} ELSE {})

\* The metadata-available signal: closes the t.GotInfo() channel.
GotInfo ==
    \E n \in PieceCounts : \E layout \in FileLayouts(n * PieceLength) :
        /\ torrentAdded
        /\ ~gotInfo
        /\ ~torrentDropped
        /\ gotInfo' = TRUE
        /\ numPieces' = n
        /\ files' = layout
        /\ priority' = [i \in 0 .. n - 1 |-> "normal"]
        /\ UNCHANGED <<torrentPath, ncVars, bytesCompleted, bgVars, uiVars,
                       target, closeVars>>

\* The engine verifies one more piece; bytes completed only ever grow.
PieceCompleted ==
    /\ gotInfo
    /\ ~torrentDropped
    /\ bytesCompleted < Min(Length, MaxCompleted * PieceLength)
    /\ bytesCompleted' = bytesCompleted + PieceLength
    /\ UNCHANGED <<torrentPath, ncVars, gotInfo, numPieces, files, priority,
                   bgVars, uiVars, target, closeVars>>

\* ------------------------------------------------- background goroutine
\* `<-t.GotInfo()`
BgAwaitInfoNoWait ==
    /\ bgPc = "wait"
    /\ bgPc' = "downloadAll"
    /\ UNCHANGED <<torrentPath, ncVars, engineVars, priority, downloadAllCalls,
                   bgI, uiVars, target, closeVars>>

BgAwaitInfo ==
    /\ bgPc = "wait"
    /\ gotInfo
    /\ bgPc' = "downloadAll"
    /\ UNCHANGED <<torrentPath, ncVars, engineVars, priority, downloadAllCalls,
                   bgI, uiVars, target, closeVars>>

\* `t.DownloadAll()`: the engine is told to fetch every piece.
BgDownloadAll ==
    /\ bgPc = "downloadAll"
    /\ downloadAllCalls' = downloadAllCalls + 1
    /\ bgPc' = "loop"
    /\ bgI' = 0
    /\ UNCHANGED <<torrentPath, ncVars, engineVars, priority, uiVars, target,
                   closeVars>>

\* `len(t.Pieces)/100*5`, in Go's integer arithmetic.
ReadaheadLimit == (numPieces \div 100) * 5

\* One iteration: `t.Pieces[i].Priority = torrent.PiecePriorityReadahead; i++`
\* The write is a plain store, unsynchronised with the readers' bumps: either
\* order of the two stores can happen, which the interleaving of this step
\* with GetFile covers.
BgSetPriority ==
    /\ bgPc = "loop"
    /\ bgI < ReadaheadLimit
    /\ priority' = [priority EXCEPT ![bgI] = "readahead"]
    /\ bgI' = bgI + 1
    /\ UNCHANGED <<torrentPath, ncVars, engineVars, downloadAllCalls, bgPc,
                   uiVars, target, closeVars>>

\* The loop condition fails and the goroutine returns.
BgExit ==
    /\ bgPc = "loop"
    /\ ~(bgI < ReadaheadLimit)
    /\ bgPc' = "done"
    /\ UNCHANGED <<torrentPath, ncVars, engineVars, priority, downloadAllCalls,
                   bgI, uiVars, target, closeVars>>

Background ==
    \/ BgAwaitInfo
    \/ BgDownloadAll
    \/ BgSetPriority
    \/ BgExit

\* ------------------------------------------------------- float64 values
\* A float64 result: a ratio num/den, NaN (0/0) or +Inf (x/0 with x > 0).
Finite(num, den) == [kind |-> "finite", num |-> num, den |-> den]
NaN == [kind |-> "NaN", num |-> 0, den |-> 0]
PosInf == [kind |-> "+Inf", num |-> 1, den |-> 0]

\* Go's `x > k` on float64: false for NaN, true for +Inf.
FloatGreater(x, k) ==
    CASE x.kind = "NaN"    -> FALSE
      [] x.kind = "+Inf"   -> TRUE
      [] x.kind = "finite" -> x.num > k * x.den

FloatIsZero(x) == x.kind = "finite" /\ x.num = 0

\* ---------------------------------------------------- progress and gate
percentageOfDelta ==
    IF Length = 0
    THEN IF bytesCompleted - Progress = 0 THEN NaN ELSE PosInf
    ELSE Finite((bytesCompleted - Progress) * 100, Length)

\* float64(BytesCompleted()) / float64(Length()) * 100; the ratios the model
\* reaches are small enough for the float64 result to compare as the exact one.
percentage ==
    IF Length = 0
    THEN IF bytesCompleted = 0 THEN NaN ELSE PosInf
    ELSE Finite(bytesCompleted * 100, Length)

ReadyForPlayback == FloatGreater(percentage, 5)

\* A caller asks the gate (the player launcher polls it).
CallReadyForPlayback ==
    /\ ncPc = "done"
    /\ readyCalled' = TRUE
    /\ readyResult' = ReadyForPlayback
    /\ UNCHANGED <<torrentPath, ncVars, engineVars, priority, bgVars, Progress,
                   screen, target, closeVars>>

NoScreen ==
    [rendered |-> FALSE, size |-> 0, stream |-> FALSE, showProgress |-> FALSE,
     percent |-> NaN, showSpeed |-> FALSE, speed |-> 0]

Render ==
    LET currentProgress == bytesCompleted
        speed == currentProgress - Progress
    IN  /\ ncPc = "done"
        /\ UNCHANGED <<torrentPath, ncVars, engineVars, priority, bgVars,
                       target, closeVars>>
        /\ Progress' = currentProgress
        /\ readyCalled' = TRUE
        /\ readyResult' = ReadyForPlayback'
        /\ screen' = [rendered     |-> TRUE,
                      size         |-> Length,
                      stream       |-> ReadyForPlayback',
                      showProgress |-> currentProgress > 0,
                      percent      |-> IF currentProgress > 0
                                       THEN percentage' ELSE NaN,
                      showSpeed    |-> currentProgress < Length,
                      speed        |-> IF currentProgress < Length
                                       THEN speed ELSE 0]

\* ------------------------------------------------------------ GetFile
\* Index (1-based) of the file the loop leaves in `target`; 0 is the zero File.
RECURSIVE LargestFrom(_, _, _)
LargestFrom(i, maxSize, best) ==
    IF i > Len(files) THEN best
    ELSE IF maxSize < files[i]
         THEN LargestFrom(i + 1, files[i], i)
         ELSE LargestFrom(i + 1, maxSize, best)

getLargestFile == LargestFrom(1, 0, 0)

PriorityRank(level) ==
    CASE level = "normal"    -> 0
      [] level = "readahead" -> 1
      [] level = "now"       -> 2

\* bump(pieceRange, level): every piece of the range to at least `level`.
Bump(first, last, level) ==
    [i \in DOMAIN priority |->
        IF i \in first .. last /\ PriorityRank(priority[i]) < PriorityRank(level)
        THEN level ELSE priority[i]]

\* Piece ranges a served read may need.
ReadRanges ==
    {<<0, 0>>, <<0, Min(1, numPieces - 1)>>, <<numPieces - 1, numPieces - 1>>}

\* The handler selects the largest file, opens a reader on it and serves a
\* read, which bumps the pieces it needs to `now`.
GetFile ==
    /\ ncPc = "done"
    /\ target' = getLargestFile
    /\ IF numPieces > 0
       THEN \E r \in ReadRanges : priority' = Bump(r[1], r[2], "now")
       ELSE UNCHANGED priority
    /\ UNCHANGED <<torrentPath, ncVars, engineVars, bgVars, uiVars, closeVars>>

\* ---------------------------------------------------------------- Close
CloseOrderSwapped == <<"Close", "Drop">>

\* The calls Close makes, in program order.
CloseOrder == <<"Drop", "Close">>

\* Close makes its next call.
Close ==
    /\ ncPc = "done"
    /\ closePc < Len(CloseOrder)
    /\ closePc' = closePc + 1
    /\ torrentDropped' = (torrentDropped \/ CloseOrder[closePc + 1] = "Drop")
    /\ engineClosed' = (engineClosed \/ CloseOrder[closePc + 1] = "Close")
    /\ UNCHANGED <<torrentPath, ncVars, engineVars, priority, bgVars, uiVars,
                   target>>

\* ------------------------------------------------------- specification
Init ==
    /\ torrentPath \in PathKinds
    /\ ncPc = "torrent.NewClient"
    /\ evaluated = <<>>
    /\ err = NoError
    /\ clientAttached = FALSE
    /\ torrentAttached = FALSE
    /\ torrentAdded = FALSE
    /\ gotInfo = FALSE
    /\ numPieces = 0
    /\ files = <<>>
    /\ bytesCompleted = 0
    /\ priority = <<>>
    /\ downloadAllCalls = 0
    /\ bgPc = "unstarted"
    /\ bgI = 0
    /\ Progress = 0
    /\ screen = NoScreen
    /\ readyCalled = FALSE
    /\ readyResult = FALSE
    /\ target = -1
    /\ closePc = 0
    /\ torrentDropped = FALSE
    /\ engineClosed = FALSE

Next ==
    \/ NewClient
    \/ GotInfo
    \/ PieceCompleted
    \/ Background
    \/ CallReadyForPlayback
    \/ Render
    \/ GetFile
    \/ Close

Spec == Init /\ [][Next]_vars

\* The Go scheduler runs every runnable goroutine: NewClient's caller and the
\* background goroutine keep taking their steps.
FairSpec == Spec /\ WF_vars(NewClient) /\ WF_vars(Background)

\* ------------------------------------------------------------- claims

\* C1: whenever the total length is positive, ReadyForPlayback is true exactly
\* when bytesCompleted / totalLength >= 0.05, so also at exactly 5%.
C1_ReadyIffAtLeastFivePercent ==
    (ncPc = "done" /\ Length > 0)
        => (ReadyForPlayback <=> bytesCompleted * 100 >= 5 * Length)

\* C2: once a ReadyForPlayback call has returned true, every later call returns
\* true and every later Render shows the streaming URL, whatever progress
\* events and priority changes happen in between.
C2_ReadyMonotonic ==
    [][(readyCalled /\ readyResult)
          => (readyResult' /\ (Render => screen'.stream))]_vars

C2_Witness ==
    /\ readyCalled /\ readyResult
    /\ screen.rendered /\ screen.stream
    /\ \E i \in DOMAIN priority : priority[i] = "now"

\* ceil(5% * n) in integer arithmetic.
CeilFivePercent(n) == (5 * n + 99) \div 100

\* C3: when the background task has finished, exactly the pieces
\* 0 .. ceil(5% * n) - 1 have been raised to readahead (or higher), and no
\* piece outside that prefix is at readahead.
C3_ReadaheadPrefixIsCeil ==
    bgPc = "done" =>
        \A i \in 0 .. numPieces - 1 :
            /\ i < CeilFivePercent(numPieces)
                  => PriorityRank(priority[i]) >= PriorityRank("readahead")
            /\ i >= CeilFivePercent(numPieces) => priority[i] # "readahead"

\* C4: the background task calls DownloadAll and writes piece priorities only
\* after the metadata signal; it does each once; and once the metadata has
\* arrived it eventually has told the engine to fetch all pieces and has
\* finished the readahead pass.
C4_BackgroundAfterMetadata ==
    /\ [](~gotInfo => (downloadAllCalls = 0 /\ bgI = 0
                         /\ bgPc \in {"unstarted", "wait"}))
    /\ [](downloadAllCalls <= 1)
    /\ [](bgPc \in {"loop", "done"} <=> downloadAllCalls = 1)
    /\ [][bgPc = "done" => (bgPc' = "done" /\ bgI' = bgI)]_vars
    /\ (gotInfo ~> (bgPc = "done" /\ downloadAllCalls = 1))

C4_Witness ==
    gotInfo /\ bgPc = "done" /\ downloadAllCalls = 1 /\ bgI > 0

\* C5: while no piece has been verified yet, no step ever lowers the priority
\* of any piece.
C5_PriorityNeverLowered ==
    [][\A i \in DOMAIN priority :
          bytesCompleted' = 0
              => PriorityRank(priority'[i]) >= PriorityRank(priority[i])]_vars

\* C6: Render has printed and GetFile has selected a file only if the
\* metadata-available signal has fired.
C6_FileOpsAfterMetadata ==
    (screen.rendered \/ target # -1) => gotInfo

\* C7: the engine session is closed only after the torrent has been dropped,
\* and the drop never happens once the engine session is closed.
C7_DropBeforeClose ==
    /\ [](engineClosed => torrentDropped)
    /\ [][(torrentDropped' /\ ~torrentDropped) => ~engineClosed']_vars

C7_Witness == closePc = 2 /\ torrentDropped /\ engineClosed

\* C8: a failed construction step is the last step evaluated, the returned
\* error names it, no torrent is attached and the background task is never
\* started; the background task runs only after a construction with no failure.
C8_ConstructionFailureFatal ==
    LET failures == {i \in 1 .. Len(evaluated) : ~evaluated[i].ok}
    IN  /\ failures # {} =>
            /\ failures = {Len(evaluated)}
            /\ err = ErrorType(evaluated[Len(evaluated)].step)
            /\ ncPc = "failed"
            /\ ~torrentAttached
            /\ bgPc = "unstarted"
            /\ downloadAllCalls = 0
        /\ failures = {} => (err = NoError /\ ncPc # "failed")
        /\ bgPc # "unstarted" =>
            (failures = {} /\ ncPc = "done" /\ torrentAttached)

C8_Witness ==
    /\ ncPc = "failed"
    /\ Len(evaluated) >= 2
    /\ err = ErrorType(evaluated[Len(evaluated)].step)

\* C9: with a total length of zero the percentage is 0 and the readiness gate
\* is false.
C9_ZeroLengthPercentageIsZero ==
    (ncPc = "done" /\ Length = 0)
        => (FloatIsZero(percentage) /\ ~ReadyForPlayback)

\* C10: once the torrent has been dropped, the background task issues no
\* DownloadAll and writes no piece priority.
C10_NoBackgroundActionAfterDrop ==
    [][torrentDropped
          => (downloadAllCalls' = downloadAllCalls /\ bgI' = bgI)]_vars

====
